---- MODULE Spec2Model ----
(***************************************************************************)
(* EchoPilot review pipeline: the fetch-reviews and analyze-sentiment edge *)
(* functions running as independent invocations against the shared        *)
(* Postgres tables businesses, reviews, sentiment_analysis, review_tags.   *)
(* Every await on the database is one atomic step of an invocation, so     *)
(* invocations interleave exactly where the handlers yield (Spec).         *)
(* SentimentSpec applies analyzeSentiment to texts with every number of    *)
(* lexicon hits; DatabaseSpec runs inserts, updates and deletes of         *)
(* signed-in users against the schema's constraints and row level          *)
(* security policies. call and pg are the state of these two; unit is the  *)
(* state of the unit the remaining specifications run: the CircuitBreaker  *)
(* and the retry helper of the error-recovery tests (BreakerSpec,          *)
(* RetrySpec), ProtectedRoute (RouteSpec) and the handle_new_user trigger  *)
(* (SignupSpec); PhraseSpec applies extractKeyPhrases to texts.            *)
(***************************************************************************)
EXTENDS Integers, Sequences, FiniteSets, TLC

VARIABLES now, businesses, reviews, sentiment_analysis, review_tags, inv, started,
          call, pg, unit

vars == <<now, businesses, reviews, sentiment_analysis, review_tags, inv, started,
          call, pg, unit>>

(* ------------------------------ bounds -------------------------------- *)

\* Concurrent edge-function invocations: worker slots 1..2.
Workers == {1, 2}

\* Invocations started in one behaviour.
MaxInvocations == 2

\* The clock runs from 0 to MaxTime ticks of TickHours hours each.
MaxTime == 1

TickHours == 24

(* ------------------------------ schema -------------------------------- *)

\* last_review_fetch TIMESTAMP WITH TIME ZONE, no default: NULL.
NULL == 0 - 1

Platforms == {"google", "yelp", "facebook", "tripadvisor"}

\* The platform values requests are sent with ('' is a missing field).
RequestPlatforms == {"", "google"}

ProcessingStatus == {"pending", "processing", "completed", "failed"}

\* if (hoursSinceLastFetch < 24)
RefreshHours == 24

\* A review_id no stored review has (uuids are never guessed).
NoSuchReview == 2 * MaxInvocations + 1

\* Rows of public.reviews matching a dedup key.
ReviewsWithKey(rows, b, p, prid) ==
    {i \in DOMAIN rows : /\ rows[i].business_id = b
                         /\ rows[i].platform = p
                         /\ rows[i].platform_review_id = prid}

\* UNIQUE(business_id, platform, platform_review_id)
UniqueViolation_dropped(rows, b, p, prid) == FALSE

UniqueViolation(rows, b, p, prid) == ReviewsWithKey(rows, b, p, prid) # {}

\* sentiment_analysis.review_id REFERENCES public.reviews(id)
ReviewExists(rows, id) == id \in DOMAIN rows

SentimentRowsOf(id) == {i \in DOMAIN sentiment_analysis : sentiment_analysis[i].review_id = id}

(* --------------------------- fetch-reviews ---------------------------- *)

\* fetchGoogleReviews / fetchYelpReviews: two mock reviews whose platform
\* ids are built from the platform name and Date.now().
MockReviews(platform, t) == << <<platform, t, 1>>, <<platform, t, 2>> >>

\* if (!force_refresh && business.last_review_fetch) { ... < 24 }
SkipFetch_ignoring_force(force_refresh, last_fetch, t) ==
    /\ last_fetch # NULL
    /\ (t - last_fetch) * TickHours < RefreshHours

SkipFetch(force_refresh, last_fetch, t) ==
    /\ ~force_refresh
    /\ last_fetch # NULL
    /\ (t - last_fetch) * TickHours < RefreshHours

\* if (insertError) { console.error(...); continue }
InsertErrorNext_throw == "throw"

InsertErrorNext == "continue"

\* The row written by processAndStoreReviews' insert.
NewReview(b, p, prid) ==
    [business_id |-> b, platform |-> p, platform_review_id |-> prid,
     is_processed |-> FALSE, processing_status |-> "pending"]

\* .update({ is_processed: true, processing_status: 'completed' }).eq('id', id)
MarkCompleted_flag_only(rows, id) ==
    [i \in DOMAIN rows |->
        IF i = id THEN [rows[i] EXCEPT !.is_processed = TRUE] ELSE rows[i]]

MarkCompleted(rows, id) ==
    [i \in DOMAIN rows |->
        IF i = id THEN [rows[i] EXCEPT !.is_processed = TRUE,
                                       !.processing_status = "completed"]
        ELSE rows[i]]

\* .update({ is_processed: false, processing_status: 'failed' }).eq('id', id)
MarkFailed_pending(rows, id) ==
    [i \in DOMAIN rows |->
        IF i = id THEN [rows[i] EXCEPT !.is_processed = FALSE,
                                       !.processing_status = "pending"]
        ELSE rows[i]]

MarkFailed(rows, id) ==
    [i \in DOMAIN rows |->
        IF i = id THEN [rows[i] EXCEPT !.is_processed = FALSE,
                                       !.processing_status = "failed"]
        ELSE rows[i]]

\* .update({ processing_status: 'processing' }).eq('id', id)
MarkProcessing(rows, id) ==
    [i \in DOMAIN rows |->
        IF i = id THEN [rows[i] EXCEPT !.processing_status = "processing"]
        ELSE rows[i]]

(* -------------------------- analyze-sentiment ------------------------- *)

\* A JSON value of the request body: its runtime type and, for a string,
\* its text as a sequence of lower-cased tokens.
Undefined == [t |-> "undefined", v |-> <<>>]

Str(tokens) == [t |-> "string", v |-> tokens]

NumberValue == [t |-> "number", v |-> <<>>]

\* !review_text: undefined and the empty string are falsy.
Falsy(val) == val.t \in {"undefined", "null"} \/ (val.t = "string" /\ val.v = <<>>)

\* The lexicons, in the order of the arrays.
positiveWords ==
    <<"amazing", "excellent", "great", "good", "wonderful", "fantastic", "outstanding",
      "perfect", "love", "enjoy", "delicious", "friendly", "helpful", "professional",
      "quick", "fast", "clean", "beautiful", "comfortable", "recommend", "best">>

negativeWords ==
    <<"terrible", "awful", "horrible", "bad", "poor", "disappointing", "worst",
      "hate", "disgusting", "rude", "slow", "dirty", "expensive", "overpriced",
      "cold", "burnt", "wrong", "broken", "uncomfortable", "avoid", "never">>

topicOrder ==
    <<"service", "food", "coffee", "atmosphere", "price", "location", "cleanliness", "speed">>

topicKeywords ==
    [topic \in {topicOrder[i] : i \in DOMAIN topicOrder} |->
        CASE topic = "service" ->
               {"service", "staff", "employee", "server", "waiter", "waitress", "cashier"}
          [] topic = "food" ->
               {"food", "meal", "dish", "cuisine", "cooking", "chef", "kitchen"}
          [] topic = "coffee" ->
               {"coffee", "espresso", "latte", "cappuccino", "brew", "bean"}
          [] topic = "atmosphere" ->
               {"atmosphere", "ambiance", "environment", "decor", "music", "lighting"}
          [] topic = "price" ->
               {"price", "cost", "expensive", "cheap", "affordable", "value", "worth"}
          [] topic = "location" ->
               {"location", "place", "area", "neighborhood", "parking", "access"}
          [] topic = "cleanliness" ->
               {"clean", "dirty", "hygiene", "sanitary", "messy", "tidy"}
          [] topic = "speed" ->
               {"fast", "slow", "quick", "wait", "time", "efficient", "delayed"}]

\* Proper substrings among the tokens and terms used here.
ProperSubstrings ==
    {<<"uncomfortable", "comfortable">>, <<"waitress", "wait">>, <<"waiter", "wait">>,
     <<"overpriced", "price">>}

\* textLower.includes(word)
Includes(tokens, word) ==
    \E i \in DOMAIN tokens : tokens[i] = word \/ <<tokens[i], word>> \in ProperSubstrings

\* extractKeyTopics: the topics one of whose keywords the text includes, in
\* the order of topicKeywords.
extractKeyTopics(tokens) ==
    LET Present(topic) == \E k \in topicKeywords[topic] : Includes(tokens, k)
    IN  SelectSeq(topicOrder, Present)

Abs(x) == IF x < 0 THEN 0 - x ELSE x

\* words.forEach(word => { if (textLower.includes(word)) count++ })
CountHits(words, tokens) == Cardinality({i \in DOMAIN words : Includes(tokens, words[i])})

\* sentimentScore as the exact fraction <<numerator, denominator>>: 0 when
\* no lexicon word was found, else (positiveCount - negativeCount) / totalWords.
sentimentScore(positiveCount, negativeCount) ==
    IF positiveCount + negativeCount > 0
    THEN <<positiveCount - negativeCount, positiveCount + negativeCount>>
    ELSE <<0, 1>>

\* if (totalWords > 0) { if (score > 0.2) positive else if (score < -0.2) negative }
overallSentiment_inclusive(positiveCount, negativeCount) ==
    LET score == sentimentScore(positiveCount, negativeCount)
    IN  IF positiveCount + negativeCount > 0 /\ 10 * score[1] >= 2 * score[2] THEN "positive"
        ELSE IF positiveCount + negativeCount > 0 /\ 10 * score[1] <= 0 - 2 * score[2]
             THEN "negative"
        ELSE "neutral"

overallSentiment(positiveCount, negativeCount) ==
    LET score == sentimentScore(positiveCount, negativeCount)
    IN  IF positiveCount + negativeCount > 0 /\ 10 * score[1] > 2 * score[2] THEN "positive"
        ELSE IF positiveCount + negativeCount > 0 /\ 10 * score[1] < 0 - 2 * score[2]
             THEN "negative"
        ELSE "neutral"

\* Math.max(-1, Math.min(1, sentimentScore))
ClampScore(score) ==
    IF score[1] > score[2] THEN <<1, 1>>
    ELSE IF score[1] < 0 - score[2] THEN <<0 - 1, 1>>
    ELSE score

\* Math.min(0.95, 0.5 + Math.abs(sentimentScore) * 0.3)
confidenceScore_steep(score) ==
    LET conf == <<5 * score[2] + 5 * Abs(score[1]), 10 * score[2]>>
    IN  IF 100 * conf[1] > 99 * conf[2] THEN <<99, 100>> ELSE conf

confidenceScore_from_zero(score) ==
    LET conf == <<3 * Abs(score[1]), 10 * score[2]>>
    IN  IF 100 * conf[1] > 95 * conf[2] THEN <<95, 100>> ELSE conf

confidenceScore(score) ==
    LET conf == <<5 * score[2] + 3 * Abs(score[1]), 10 * score[2]>>
    IN  IF 100 * conf[1] > 95 * conf[2] THEN <<95, 100>> ELSE conf

\* analyzeSentiment, without the analysis_metadata of its result.
analyzeSentiment(tokens) ==
    LET positiveCount == CountHits(positiveWords, tokens)
        negativeCount == CountHits(negativeWords, tokens)
        score == sentimentScore(positiveCount, negativeCount)
    IN  [overall_sentiment |-> overallSentiment(positiveCount, negativeCount),
         sentiment_score |-> ClampScore(score),
         confidence_score |-> confidenceScore(score),
         key_topics |-> extractKeyTopics(tokens),
         positive_words_found |-> positiveCount,
         negative_words_found |-> negativeCount]

\* generateReviewTags: one tag per key topic.
reviewTag_topic_as_category(topic, sentimentResult) ==
    [tag_name |-> topic, tag_category |-> topic,
     confidence_score |-> sentimentResult.confidence_score]

reviewTag_staff_as_service(topic, sentimentResult) ==
    LET positive == sentimentResult.overall_sentiment = "positive"
    IN  [tag_name |-> IF positive THEN "friendly staff" ELSE "poor service",
         tag_category |-> "service",
         confidence_score |-> sentimentResult.confidence_score]

reviewTag(topic, sentimentResult) ==
    LET positive == sentimentResult.overall_sentiment = "positive"
        named ==
            CASE topic \in {"service", "staff"} ->
                   <<"staff", IF positive THEN "friendly staff" ELSE "poor service">>
              [] topic \in {"food", "coffee"} ->
                   <<"product", IF positive THEN "quality food" ELSE "poor food">>
              [] topic = "atmosphere" ->
                   <<"ambiance", IF positive THEN "good atmosphere" ELSE "poor atmosphere">>
              [] topic = "price" ->
                   <<"value", IF positive THEN "good value" ELSE "overpriced">>
              [] topic = "speed" ->
                   <<"service", IF positive THEN "fast service" ELSE "slow service">>
              [] OTHER -> <<"other", topic>>
    IN  [tag_name |-> named[2], tag_category |-> named[1],
         confidence_score |-> sentimentResult.confidence_score]

generateReviewTags(reviewId, sentimentResult) ==
    [i \in DOMAIN sentimentResult.key_topics |->
        [review_id |-> reviewId,
         tag |-> reviewTag(sentimentResult.key_topics[i], sentimentResult)]]

\* The row analyze-sentiment inserts into sentiment_analysis.
SentimentRow(reviewId, sentimentResult) ==
    [review_id |-> reviewId,
     overall_sentiment |-> sentimentResult.overall_sentiment,
     sentiment_score |-> sentimentResult.sentiment_score,
     confidence_score |-> sentimentResult.confidence_score,
     key_topics |-> sentimentResult.key_topics]

NoResult == analyzeSentiment(<<>>)

\* processing_time_ms: Math.floor(Math.random() * 200) + 100
ProcessingTimeSpread == 200

ProcessingTimeBase == 100

\* The values of Math.floor(Math.random() * 200) taken into account.
MaxProcessingDraw == 1

ProcessingTimes ==
    {ProcessingTimeBase + d : d \in 0 .. (IF MaxProcessingDraw < ProcessingTimeSpread
                                          THEN MaxProcessingDraw
                                          ELSE ProcessingTimeSpread - 1)}

\* analysis_metadata of the result; ''.split(' ') is [''].
analysisMetadata(tokens, positiveCount, negativeCount, processing_time_ms) ==
    [language |-> "en", model_version |-> "1.0",
     processing_time_ms |-> processing_time_ms,
     positive_words_found |-> positiveCount,
     negative_words_found |-> negativeCount,
     total_words_analyzed |-> IF tokens = <<>> THEN 1 ELSE Len(tokens)]

\* The SentimentResult one call of analyzeSentiment returns (key_phrases, a
\* function of the text alone, apart).
SentimentResult(tokens, processing_time_ms) ==
    LET r == analyzeSentiment(tokens)
    IN  [overall_sentiment |-> r.overall_sentiment,
         sentiment_score |-> r.sentiment_score,
         confidence_score |-> r.confidence_score,
         key_topics |-> r.key_topics,
         analysis_metadata |->
             analysisMetadata(tokens, r.positive_words_found, r.negative_words_found,
                              processing_time_ms)]

\* Review texts the invocations are called with.
SampleTexts == {<<"great", "staff">>, <<"we", "went", "there">>}

ReviewTextValues == {Undefined, Str(<<>>), NumberValue} \cup {Str(x) : x \in SampleTexts}

(* ----------------------------- invocations ---------------------------- *)

\* A response: its status and the fields of its JSON body the handlers set
\* (a field the body does not have is 0 or '').
NoResponse ==
    [status |-> 0, message |-> "", reviews_processed |-> 0, platform |-> "",
     business_id |-> ""]

Response(status, message) ==
    [status |-> status, message |-> message, reviews_processed |-> 0, platform |-> "",
     business_id |-> ""]

\* JSON.stringify({ message: 'Reviews fetched successfully',
\*   reviews_processed: processedReviews.length, platform, business_id })
FetchedResponse(processedReviews, platform, business_id) ==
    [status |-> 200, message |-> "Reviews fetched successfully",
     reviews_processed |-> Len(processedReviews), platform |-> platform,
     business_id |-> business_id]

\* JSON.stringify({ message: 'Reviews recently fetched, skipping', last_fetch })
SkippedResponse == Response(200, "Reviews recently fetched, skipping")

\* The catch block of either handler.
InternalError == Response(500, "Internal server error")

\* The local variables of one invocation; pc is the await it is parked on.
\* insert_errors is what console.error logged, status_writes the statuses
\* the invocation has written to its review, checked_at the Date it read.
Idle ==
    [fn |-> "none", pc |-> "idle",
     business_id |-> "", platform |-> "", force_refresh |-> FALSE,
     last_fetch |-> NULL, checked_at |-> NULL,
     raw |-> <<>>, idx |-> 1, processedReviews |-> <<>>, insert_errors |-> <<>>,
     newReview |-> 0,
     review_id |-> 0, review_text |-> Undefined,
     sentimentResult |-> NoResult, insertError |-> FALSE, status_writes |-> <<>>,
     resp |-> NoResponse]

\* scripts/seed.ts: a business with one classified review of it (the sample
\* review 'google_review_1', its sentiment row and its tags).
SeedReview ==
    [business_id |-> "b1", platform |-> "google",
     platform_review_id |-> <<"google", NULL, 1>>,
     is_processed |-> TRUE, processing_status |-> "completed"]

SeedSentiment ==
    [review_id |-> 1, overall_sentiment |-> "positive",
     sentiment_score |-> <<85, 100>>, confidence_score |-> <<92, 100>>,
     key_topics |-> <<"coffee", "atmosphere", "staff", "pastries">>]

SeedTags ==
    << [review_id |-> 1,
        tag |-> [tag_name |-> "friendly staff", tag_category |-> "staff",
                 confidence_score |-> <<95, 100>>]],
       [review_id |-> 1,
        tag |-> [tag_name |-> "quality coffee", tag_category |-> "product",
                 confidence_score |-> <<92, 100>>]],
       [review_id |-> 1,
        tag |-> [tag_name |-> "good atmosphere", tag_category |-> "ambiance",
                 confidence_score |-> <<88, 100>>]] >>

PipelineInit ==
    /\ now = 0
    /\ businesses = [b \in {"b1"} |-> [last_review_fetch |-> NULL]]
    /\ reviews = <<SeedReview>>
    /\ sentiment_analysis = <<SeedSentiment>>
    /\ review_tags = SeedTags
    /\ inv = [w \in Workers |-> Idle]
    /\ started = 0

\* No classification call under study.
NoCall == [text |-> <<>>, results |-> <<>>, tags |-> <<>>]

\* The tables of the schema, without rows; serial counts the ids given out.
EmptyDatabase ==
    [users |-> {}, businesses |-> {}, reviews |-> {}, sentiment_analysis |-> {},
     email_notifications |-> {}, user_preferences |-> {}, review_tags |-> {},
     api_keys |-> {}, serial |-> 0]

\* No helper or component under study.
NoUnit == [kind |-> "none"]

Init ==
    /\ PipelineInit
    /\ call = NoCall
    /\ pg = EmptyDatabase
    /\ unit = NoUnit

\* Wall-clock time passes.
Tick ==
    /\ now < MaxTime
    /\ now' = now + 1
    /\ UNCHANGED <<businesses, reviews, sentiment_analysis, review_tags, inv, started, call, pg, unit>>

\* A worker is free before its first request and once it has answered.
Free(w) == inv[w].pc \in {"idle", "done"}

\* A request is dispatched to the first free worker.
Dispatched(w) == Free(w) /\ \A v \in Workers : v < w => ~Free(v)

(* fetch-reviews: request parsing and validation (lines 31-45). *)
FetchRequest(w) ==
    /\ Dispatched(w)
    /\ started < MaxInvocations
    /\ started' = started + 1
    /\ \E parsed \in BOOLEAN, b \in {"", "b1", "b9"}, p \in RequestPlatforms,
          force \in BOOLEAN :
         LET me == [Idle EXCEPT !.fn = "fetch-reviews", !.business_id = b,
                                !.platform = p, !.force_refresh = force]
         IN  \/ /\ ~parsed /\ b = "" /\ p = "" /\ ~force
                /\ inv' = [inv EXCEPT ![w] = [me EXCEPT !.pc = "done", !.resp = InternalError]]
             \/ /\ parsed /\ (b = "" \/ p = "")
                /\ inv' = [inv EXCEPT ![w] =
                      [me EXCEPT !.pc = "done",
                                 !.resp = Response(400, "Missing required fields")]]
             \/ /\ parsed /\ b # "" /\ p # ""
                /\ inv' = [inv EXCEPT ![w] = [me EXCEPT !.pc = "getBusiness"]]
    /\ UNCHANGED <<now, businesses, reviews, sentiment_analysis, review_tags, call, pg, unit>>

(* fetch-reviews: business lookup, freshness check and platform fetch      *)
(* (lines 47-85).                                                          *)
GetBusiness(w) ==
    LET me == inv[w]
        last == businesses[me.business_id].last_review_fetch
    IN  /\ me.fn = "fetch-reviews" /\ me.pc = "getBusiness"
        /\ IF me.business_id \notin DOMAIN businesses
           THEN inv' = [inv EXCEPT ![w] =
                   [me EXCEPT !.pc = "done", !.resp = Response(404, "Business not found")]]
           ELSE IF SkipFetch(me.force_refresh, last, now)
           THEN inv' = [inv EXCEPT ![w] =
                   [me EXCEPT !.pc = "done", !.resp = SkippedResponse,
                              !.last_fetch = last, !.checked_at = now]]
           ELSE inv' = [inv EXCEPT ![w] =
                   [me EXCEPT !.pc = "lookup", !.raw = MockReviews(me.platform, now),
                              !.last_fetch = last, !.checked_at = now]]
        /\ UNCHANGED <<now, businesses, reviews, sentiment_analysis, review_tags, started, call, pg, unit>>

\* The invocation's locals after one iteration of the for loop.
NextReview(me) ==
    [me EXCEPT !.idx = me.idx + 1,
               !.pc = IF me.idx + 1 > Len(me.raw) THEN "touch" ELSE "lookup"]

(* processAndStoreReviews: "Check if review already exists" (lines 178-189). *)
Lookup(w) ==
    LET me == inv[w]
        existingReview == ReviewsWithKey(reviews, me.business_id, me.platform, me.raw[me.idx])
    IN  /\ me.fn = "fetch-reviews" /\ me.pc = "lookup"
        /\ inv' = [inv EXCEPT ![w] =
              IF existingReview # {} THEN NextReview(me) ELSE [me EXCEPT !.pc = "insert"]]
        /\ UNCHANGED <<now, businesses, reviews, sentiment_analysis, review_tags, started, call, pg, unit>>

\* What the handler does with an insertError of the given kind.
AfterInsertError(me, kind) ==
    LET logged == [me EXCEPT !.insert_errors = Append(me.insert_errors, kind)]
    IN  IF InsertErrorNext = "continue" THEN NextReview(logged)
        ELSE [logged EXCEPT !.pc = "done", !.resp = InternalError]

(* processAndStoreReviews: "Insert new review" (lines 191-215). The insert *)
(* is rejected by the unique constraint, fails in the store, or adds the   *)
(* row.                                                                    *)
InsertReview(w) ==
    LET me == inv[w]
        prid == me.raw[me.idx]
        newId == Len(reviews) + 1
    IN  /\ me.fn = "fetch-reviews" /\ me.pc = "insert"
        /\ IF UniqueViolation(reviews, me.business_id, me.platform, prid)
           THEN /\ inv' = [inv EXCEPT ![w] = AfterInsertError(me, "duplicate")]
                /\ UNCHANGED reviews
           ELSE \/ /\ inv' = [inv EXCEPT ![w] = AfterInsertError(me, "store")]
                   /\ UNCHANGED reviews
                \/ /\ reviews' = Append(reviews, NewReview(me.business_id, me.platform, prid))
                   /\ inv' = [inv EXCEPT ![w] =
                         [me EXCEPT !.pc = "markProcessed", !.newReview = newId,
                                    !.processedReviews = Append(me.processedReviews, newId)]]
        /\ UNCHANGED <<now, businesses, sentiment_analysis, review_tags, started, call, pg, unit>>

(* processAndStoreReviews: "For now, we'll just mark it as processed"      *)
(* (lines 217-225).                                                        *)
MarkProcessed(w) ==
    LET me == inv[w]
    IN  /\ me.fn = "fetch-reviews" /\ me.pc = "markProcessed"
        /\ reviews' = MarkCompleted(reviews, me.newReview)
        /\ inv' = [inv EXCEPT ![w] = NextReview(me)]
        /\ UNCHANGED <<now, businesses, sentiment_analysis, review_tags, started, call, pg, unit>>

(* fetch-reviews: "Update business last_fetch timestamp" and the success   *)
(* response (lines 90-104).                                                *)
TouchLastFetch(w) ==
    LET me == inv[w]
    IN  /\ me.fn = "fetch-reviews" /\ me.pc = "touch"
        /\ businesses' = [businesses EXCEPT ![me.business_id].last_review_fetch = now]
        /\ inv' = [inv EXCEPT ![w] =
              [me EXCEPT !.pc = "done", !.resp = FetchedResponse(me.processedReviews, me.platform,
                                                           me.business_id)]]
        /\ UNCHANGED <<now, reviews, sentiment_analysis, review_tags, started, call, pg, unit>>

(* analyze-sentiment: request parsing and validation (lines 29-43). *)
AnalyzeRequest(w) ==
    /\ Dispatched(w)
    /\ started < MaxInvocations
    /\ started' = started + 1
    /\ \E parsed \in BOOLEAN, id \in {0, NoSuchReview} \cup DOMAIN reviews,
          text \in ReviewTextValues :
         LET me == [Idle EXCEPT !.fn = "analyze-sentiment", !.review_id = id,
                                !.review_text = text]
         IN  \/ /\ ~parsed /\ id = 0 /\ text = Undefined
                /\ inv' = [inv EXCEPT ![w] = [me EXCEPT !.pc = "done", !.resp = InternalError]]
             \/ /\ parsed /\ (id = 0 \/ Falsy(text))
                /\ inv' = [inv EXCEPT ![w] =
                      [me EXCEPT !.pc = "done",
                                 !.resp = Response(400, "Missing required fields")]]
             \/ /\ parsed /\ id # 0 /\ ~Falsy(text)
                /\ inv' = [inv EXCEPT ![w] = [me EXCEPT !.pc = "setProcessing"]]
    /\ UNCHANGED <<now, businesses, reviews, sentiment_analysis, review_tags, call, pg, unit>>

(* analyze-sentiment: "Update review status to processing", then           *)
(* analyzeSentiment(review_text) (lines 45-52). text.toLowerCase() throws  *)
(* a TypeError when review_text is not a string; the catch block answers.  *)
SetProcessing(w) ==
    LET me == inv[w]
        claimed == [me EXCEPT !.status_writes = <<"processing">>]
    IN  /\ me.fn = "analyze-sentiment" /\ me.pc = "setProcessing"
        /\ reviews' = MarkProcessing(reviews, me.review_id)
        /\ inv' = [inv EXCEPT ![w] =
              IF me.review_text.t # "string"
              THEN [claimed EXCEPT !.pc = "done", !.resp = InternalError]
              ELSE [claimed EXCEPT !.pc = "insertSentiment",
                                   !.sentimentResult = analyzeSentiment(me.review_text.v)]]
        /\ UNCHANGED <<now, businesses, sentiment_analysis, review_tags, started, call, pg, unit>>

(* analyze-sentiment: "Store sentiment analysis result" (lines 54-69). The *)
(* insert violates the foreign key, fails in the store, or adds the row.   *)
InsertSentiment(w) ==
    LET me == inv[w]
        failed == [me EXCEPT !.pc = "setFailed", !.insertError = TRUE]
        tags == generateReviewTags(me.review_id, me.sentimentResult)
    IN  /\ me.fn = "analyze-sentiment" /\ me.pc = "insertSentiment"
        /\ IF ~ReviewExists(reviews, me.review_id)
           THEN /\ inv' = [inv EXCEPT ![w] = failed]
                /\ UNCHANGED sentiment_analysis
           ELSE \/ /\ inv' = [inv EXCEPT ![w] = failed]
                   /\ UNCHANGED sentiment_analysis
                \/ /\ sentiment_analysis' =
                         Append(sentiment_analysis, SentimentRow(me.review_id, me.sentimentResult))
                   /\ inv' = [inv EXCEPT ![w] =
                         [me EXCEPT !.pc = IF tags # <<>> THEN "insertTags" ELSE "setCompleted"]]
        /\ UNCHANGED <<now, businesses, reviews, review_tags, started, call, pg, unit>>

(* analyze-sentiment: "Update review status to failed", throw insertError  *)
(* (lines 69-80), answered by the catch block (lines 103-109).             *)
SetFailed(w) ==
    LET me == inv[w]
    IN  /\ me.fn = "analyze-sentiment" /\ me.pc = "setFailed"
        /\ reviews' = MarkFailed(reviews, me.review_id)
        /\ inv' = [inv EXCEPT ![w] =
              [me EXCEPT !.pc = "done", !.resp = InternalError,
                         !.status_writes = Append(me.status_writes, "failed")]]
        /\ UNCHANGED <<now, businesses, sentiment_analysis, review_tags, started, call, pg, unit>>

(* generateReviewTags: "Insert tags" when there are any (lines 270-280). *)
InsertTags(w) ==
    LET me == inv[w]
    IN  /\ me.fn = "analyze-sentiment" /\ me.pc = "insertTags"
        /\ review_tags' = review_tags \o generateReviewTags(me.review_id, me.sentimentResult)
        /\ inv' = [inv EXCEPT ![w] = [me EXCEPT !.pc = "setCompleted"]]
        /\ UNCHANGED <<now, businesses, reviews, sentiment_analysis, started, call, pg, unit>>

(* analyze-sentiment: "Update review status to completed" and the success  *)
(* response (lines 85-101).                                                *)
SetCompleted(w) ==
    LET me == inv[w]
    IN  /\ me.fn = "analyze-sentiment" /\ me.pc = "setCompleted"
        /\ reviews' = MarkCompleted(reviews, me.review_id)
        /\ inv' = [inv EXCEPT ![w] =
              [me EXCEPT !.pc = "done",
                         !.resp = Response(200, "Sentiment analysis completed successfully"),
                         !.status_writes = Append(me.status_writes, "completed")]]
        /\ UNCHANGED <<now, businesses, sentiment_analysis, review_tags, started, call, pg, unit>>

Next ==
    \/ Tick
    \/ \E w \in Workers : FetchRequest(w)
    \/ \E w \in Workers : GetBusiness(w)
    \/ \E w \in Workers : Lookup(w)
    \/ \E w \in Workers : InsertReview(w)
    \/ \E w \in Workers : MarkProcessed(w)
    \/ \E w \in Workers : TouchLastFetch(w)
    \/ \E w \in Workers : AnalyzeRequest(w)
    \/ \E w \in Workers : SetProcessing(w)
    \/ \E w \in Workers : InsertSentiment(w)
    \/ \E w \in Workers : SetFailed(w)
    \/ \E w \in Workers : InsertTags(w)
    \/ \E w \in Workers : SetCompleted(w)

Spec == Init /\ [][Next]_vars

(* ------------------------- classification calls ----------------------- *)

\* Calls of analyzeSentiment made on one text.
MaxCalls == 2

\* Words of neither lexicon; all but the first are topic keywords.
plainWords == <<"today", "staff", "coffee", "meal", "music", "parking">>

MaxPlain == 6

Take(words, k) == SubSeq(words, 1, IF k < Len(words) THEN k ELSE Len(words))

\* Review texts with every number of hits in either lexicon.
ClassifiedTexts ==
    {Take(positiveWords, p) \o Take(negativeWords, n) \o Take(plainWords, f) :
        p \in 0 .. Len(positiveWords), n \in 0 .. Len(negativeWords), f \in 0 .. MaxPlain}

SentimentInit ==
    /\ PipelineInit
    /\ call \in {[text |-> t, results |-> <<>>, tags |-> <<>>] : t \in ClassifiedTexts}
    /\ pg = EmptyDatabase
    /\ unit = NoUnit

(* const sentimentResult = await analyzeSentiment(review_text), then       *)
(* generateReviewTags(supabase, review_id, sentimentResult): tags holds    *)
(* the rows each call inserts into review_tags.                            *)
Classify ==
    /\ Len(call.results) < MaxCalls
    /\ \E processing_time_ms \in ProcessingTimes :
           LET sentimentResult == SentimentResult(call.text, processing_time_ms)
           IN  call' = [call EXCEPT
                           !.results = Append(@, sentimentResult),
                           !.tags = Append(@, generateReviewTags(1, sentimentResult))]
    /\ UNCHANGED <<now, businesses, reviews, sentiment_analysis, review_tags, inv, started, pg, unit>>

SentimentNext == Classify

SentimentSpec == SentimentInit /\ [][SentimentNext]_vars

(* ------------------------------ key phrases --------------------------- *)

\* A text as its characters: a letter, a space, or a sentence terminator
\* (one of . ! ?).
Characters == {"a", " ", "."}

MaxChars == 5

RECURSIVE SplitAt(_, _)
\* String.split on a separator character: the pieces between separators,
\* empty pieces included.
SplitAt(chars, sep) ==
    IF \A i \in DOMAIN chars : chars[i] # sep THEN <<chars>>
    ELSE LET first == CHOOSE i \in DOMAIN chars :
                          chars[i] = sep /\ \A j \in 1 .. i - 1 : chars[j] # sep
         IN  <<SubSeq(chars, 1, first - 1)>> \o
                 SplitAt(SubSeq(chars, first + 1, Len(chars)), sep)

\* String.trim
Trim(chars) ==
    IF \A i \in DOMAIN chars : chars[i] = " " THEN <<>>
    ELSE LET first == CHOOSE i \in DOMAIN chars :
                          chars[i] # " " /\ \A j \in 1 .. i - 1 : chars[j] = " "
             last == CHOOSE i \in DOMAIN chars :
                         chars[i] # " " /\ \A j \in i + 1 .. Len(chars) : chars[j] = " "
         IN  SubSeq(chars, first, last)

NonBlank(sentence) == Len(Trim(sentence)) > 0

\* text.split(/[.!?]+/).filter(s => s.trim().length > 0): a piece between
\* two adjacent terminators is empty and filtered out, as is the piece the
\* one-or-more pattern does not produce.
Sentences(chars) == SelectSeq(SplitAt(chars, "."), NonBlank)

\* words.length >= 3 && words.length <= 8, words = sentence.trim().split(' ')
IsKeyPhrase(sentence) ==
    /\ Len(SplitAt(Trim(sentence), " ")) >= 3
    /\ Len(SplitAt(Trim(sentence), " ")) <= 8

\* extractKeyPhrases: phrases.slice(0, 5)
extractKeyPhrases(chars) ==
    LET kept == SelectSeq(Sentences(chars), IsKeyPhrase)
        phrases == [i \in DOMAIN kept |-> Trim(kept[i])]
    IN  SubSeq(phrases, 1, IF Len(phrases) < 5 THEN Len(phrases) ELSE 5)

PhraseInit ==
    /\ PipelineInit
    /\ call \in {[text |-> t, results |-> <<>>, tags |-> <<>>] :
                    t \in UNION {[1 .. n -> Characters] : n \in 0 .. MaxChars}}
    /\ pg = EmptyDatabase
    /\ unit = NoUnit

(* const keyPhrases = extractKeyPhrases(text) *)
ExtractPhrases ==
    /\ call.results = <<>>
    /\ call' = [call EXCEPT !.results = <<extractKeyPhrases(call.text)>>]
    /\ UNCHANGED <<now, businesses, reviews, sentiment_analysis, review_tags, inv, started, pg, unit>>

PhraseNext == ExtractPhrases

PhraseSpec == PhraseInit /\ [][PhraseNext]_vars

(* ------------------- schema: constraints and policies ----------------- *)

\* Rows are records of the key columns of their table: id, the foreign key
\* (user_id, business_id or review_id), the columns the policies read and
\* the external ids of a business.
Tables ==
    {"users", "businesses", "reviews", "sentiment_analysis", "email_notifications",
     "user_preferences", "review_tags", "api_keys"}

\* auth.uid() of the signed-in users.
AuthUsers == {11, 12}

\* CHECK (role IN ('admin', 'business_owner'))
UserRoles == {"admin", "business_owner"}

\* NULL of a TEXT column.
NullText == "NULL"

GooglePlaceIds == {NullText, "ChIJN1t_tDeuEmsRUsoyG83frY4"}

YelpBusinessIds == {NullText, "downtown-coffee-shop-downtown"}

\* Rows inserted in one behaviour.
MaxInserts == 3

\* public.users rows of the two signed-in users.
RegisteredUsers ==
    {[id |-> 1, auth_user_id |-> 11, role |-> "business_owner"],
     [id |-> 2, auth_user_id |-> 12, role |-> "business_owner"]}

RegisteredDatabase == [EmptyDatabase EXCEPT !.users = RegisteredUsers, !.serial = 2]

Ids(rows) == {r.id : r \in rows}

\* The table a table's foreign key REFERENCES.
Parent(table) ==
    CASE table = "businesses" -> "users"
      [] table = "reviews" -> "businesses"
      [] table \in {"sentiment_analysis", "review_tags"} -> "reviews"
      [] table \in {"email_notifications", "user_preferences", "api_keys"} -> "users"
      [] OTHER -> "auth.users"

\* The value of a row's foreign key.
Ref(table, row) ==
    CASE table \in {"businesses", "email_notifications", "user_preferences", "api_keys"} ->
           row.user_id
      [] table = "reviews" -> row.business_id
      [] table \in {"sentiment_analysis", "review_tags"} -> row.review_id
      [] OTHER -> row.auth_user_id

\* The rows with the given id that a statement may write to the table.
RowsOf(table, id, db) ==
    CASE table = "users" ->
           {[id |-> id, auth_user_id |-> a, role |-> r] : a \in AuthUsers, r \in UserRoles}
      [] table = "businesses" ->
           {[id |-> id, user_id |-> u, google_place_id |-> g, yelp_business_id |-> y] :
               u \in 1 .. db.serial, g \in GooglePlaceIds, y \in YelpBusinessIds}
      [] table = "reviews" -> {[id |-> id, business_id |-> b] : b \in 1 .. db.serial}
      [] table \in {"sentiment_analysis", "review_tags"} ->
           {[id |-> id, review_id |-> r] : r \in 1 .. db.serial}
      [] OTHER -> {[id |-> id, user_id |-> u] : u \in 1 .. db.serial}

\* PRIMARY KEY, REFERENCES and UNIQUE constraints on a row written to a table
\* (businesses has none on google_place_id or yelp_business_id: its indexes
\* are plain CREATE INDEX).
Constraints(table, row, db) ==
    /\ \A other \in db[table] : other.id # row.id
    /\ table # "users" => Ref(table, row) \in Ids(db[Parent(table)])
    /\ table = "user_preferences" => \A other \in db[table] : other.user_id # row.user_id

\* ON DELETE CASCADE of reviews.business_id and of sentiment_analysis.review_id
\* and review_tags.review_id, after rows of businesses were deleted.
Cascade(db) ==
    LET kept == {r \in db.reviews : r.business_id \in Ids(db.businesses)}
    IN  [db EXCEPT !.reviews = kept,
                   !.sentiment_analysis = {x \in @ : x.review_id \in Ids(kept)},
                   !.review_tags = {x \in @ : x.review_id \in Ids(kept)}]

\* EXISTS (SELECT 1 FROM public.users WHERE auth_user_id = auth.uid() AND role = 'admin')
IsAdmin(db, uid) == \E u \in db.users : u.auth_user_id = uid /\ u.role = "admin"

\* SELECT id FROM public.users WHERE auth_user_id = auth.uid(); the rows
\* it reads are the user's own, which "Users can view own profile" shows.
OwnUserIds(db, uid) == {u.id : u \in {v \in db.users : v.auth_user_id = uid}}

\* SELECT b.id FROM public.businesses b JOIN public.users u ON b.user_id = u.id
\* WHERE u.auth_user_id = auth.uid()
OwnBusinessIds_any(db, uid) == Ids(db.businesses)

OwnBusinessIds(db, uid) ==
    {b.id : b \in {c \in db.businesses : c.user_id \in OwnUserIds(db, uid)}}

\* SELECT r.id FROM public.reviews r JOIN public.businesses b ON r.business_id = b.id
\* JOIN public.users u ON b.user_id = u.id WHERE u.auth_user_id = auth.uid()
OwnReviewIds(db, uid) ==
    {r.id : r \in {x \in db.reviews : x.business_id \in OwnBusinessIds(db, uid)}}

\* The commands a table has a policy FOR.
PolicyCommands(table) ==
    CASE table \in {"businesses", "api_keys"} -> {"select", "insert", "update", "delete"}
      [] table = "reviews" -> {"select", "insert", "update"}
      [] table \in {"users", "user_preferences"} -> {"select", "update"}
      [] OTHER -> {"select"}

\* The USING / WITH CHECK expression of the table's policies on a row. Row
\* level security is enabled on every table, so a command without a policy
\* is denied.
Permits(command, table, db, uid, row) ==
    /\ command \in PolicyCommands(table)
    /\ CASE table = "users" ->
               row.auth_user_id = uid \/ (command = "select" /\ IsAdmin(db, uid))
          [] table = "reviews" -> row.business_id \in OwnBusinessIds(db, uid)
          [] table \in {"sentiment_analysis", "review_tags"} ->
               row.review_id \in OwnReviewIds(db, uid)
          [] OTHER -> row.user_id \in OwnUserIds(db, uid)

\* supabase.from(table).select('*') as the signed-in user uid.
Select(db, uid, table) == {row \in db[table] : Permits("select", table, db, uid, row)}

DatabaseInit ==
    /\ PipelineInit
    /\ call = NoCall
    /\ pg = RegisteredDatabase
    /\ unit = NoUnit

\* INSERT by a signed-in user: the row passes the WITH CHECK of the table's
\* insert policy and the constraints.
ClientInsert(uid, table) ==
    /\ pg.serial - RegisteredDatabase.serial < MaxInserts
    /\ \E row \in RowsOf(table, pg.serial + 1, pg) :
           /\ Permits("insert", table, pg, uid, row)
           /\ Constraints(table, row, pg)
           /\ pg' = [pg EXCEPT ![table] = @ \cup {row}, !.serial = @ + 1]
    /\ UNCHANGED <<now, businesses, reviews, sentiment_analysis, review_tags, inv, started,
                   call, unit>>

\* INSERT with the service role key (edge functions, seed script), which
\* bypasses row level security.
ServiceInsert(table) ==
    /\ pg.serial - RegisteredDatabase.serial < MaxInserts
    /\ table # "users"
    /\ \E row \in RowsOf(table, pg.serial + 1, pg) :
           /\ Constraints(table, row, pg)
           /\ pg' = [pg EXCEPT ![table] = @ \cup {row}, !.serial = @ + 1]
    /\ UNCHANGED <<now, businesses, reviews, sentiment_analysis, review_tags, inv, started,
                   call, unit>>

\* UPDATE by a signed-in user: the old row passes USING, the new row passes
\* the same expression as its WITH CHECK, and the constraints hold.
ClientUpdate(uid, table) ==
    /\ \E old \in pg[table] :
           /\ Permits("update", table, pg, uid, old)
           /\ \E new \in RowsOf(table, old.id, pg) \ {old} :
                  /\ Permits("update", table, pg, uid, new)
                  /\ Constraints(table, new, [pg EXCEPT ![table] = @ \ {old}])
                  /\ pg' = [pg EXCEPT ![table] = (@ \ {old}) \cup {new}]
    /\ UNCHANGED <<now, businesses, reviews, sentiment_analysis, review_tags, inv, started,
                   call, unit>>

\* DELETE by a signed-in user: the row passes USING; rows referencing it
\* go with it.
ClientDelete(uid, table) ==
    /\ \E old \in pg[table] :
           /\ Permits("delete", table, pg, uid, old)
           /\ pg' = Cascade([pg EXCEPT ![table] = @ \ {old}])
    /\ UNCHANGED <<now, businesses, reviews, sentiment_analysis, review_tags, inv, started,
                   call, unit>>

DatabaseNext ==
    \/ \E uid \in AuthUsers, table \in Tables : ClientInsert(uid, table)
    \/ \E table \in Tables : ServiceInsert(table)
    \/ \E uid \in AuthUsers, table \in Tables : ClientUpdate(uid, table)
    \/ \E uid \in AuthUsers, table \in Tables : ClientDelete(uid, table)

DatabaseSpec == DatabaseInit /\ [][DatabaseNext]_vars

(* --------------------------- circuit breaker -------------------------- *)

\* private readonly threshold = 5, private readonly timeout = 60000 (ms)
threshold == 5
timeout == 60000

\* The calls of execute in one run; Date.now() advances in steps of
\* ClockStep milliseconds, at most MaxClockSteps times.
MaxExecutes == 7
ClockStep == 30000
MaxClockSteps == 3

\* new CircuitBreaker()
NewCircuitBreaker == [failures |-> 0, lastFailureTime |-> 0, state |-> "CLOSED"]

onSuccess(breaker) == [breaker EXCEPT !.failures = 0, !.state = "CLOSED"]

onFailure_late(breaker, dateNow) ==
    LET failures == breaker.failures + 1
    IN  [failures |-> failures,
         lastFailureTime |-> dateNow,
         state |-> IF failures > threshold THEN "OPEN" ELSE breaker.state]

onFailure(breaker, dateNow) ==
    LET failures == breaker.failures + 1
    IN  [failures |-> failures,
         lastFailureTime |-> dateNow,
         state |-> IF failures >= threshold THEN "OPEN" ELSE breaker.state]

\* execute: throw new Error('Circuit breaker is OPEN')
Rejects(breaker, dateNow) ==
    breaker.state = "OPEN" /\ ~(dateNow - breaker.lastFailureTime > timeout)

\* execute: this.state = 'HALF_OPEN' once the timeout has elapsed
Entered(breaker) ==
    IF breaker.state = "OPEN" THEN [breaker EXCEPT !.state = "HALF_OPEN"] ELSE breaker

\* The outcomes of an operation handed to execute.
Outcomes == {"success", "failure"}

\* log holds, per call of execute in call order, the outcome of the
\* operation, or "open" when the breaker threw without invoking it. The
\* calls are awaited one after the other, as in the test's loop.
BreakerInit ==
    /\ PipelineInit
    /\ call = NoCall
    /\ pg = EmptyDatabase
    /\ unit = [kind |-> "breaker", breaker |-> NewCircuitBreaker, clock |-> 0, log |-> <<>>]

ClockTick ==
    /\ unit.clock < MaxClockSteps * ClockStep
    /\ unit' = [unit EXCEPT !.clock = @ + ClockStep]
    /\ UNCHANGED <<now, businesses, reviews, sentiment_analysis, review_tags, inv, started,
                   call, pg>>

\* await circuitBreaker.execute(operation)
Execute ==
    /\ Len(unit.log) < MaxExecutes
    /\ \E outcome \in Outcomes :
           unit' =
               IF Rejects(unit.breaker, unit.clock)
               THEN [unit EXCEPT !.log = Append(@, "open")]
               ELSE [unit EXCEPT
                        !.breaker = IF outcome = "success"
                                    THEN onSuccess(Entered(unit.breaker))
                                    ELSE onFailure(Entered(unit.breaker), unit.clock),
                        !.log = Append(@, outcome)]
    /\ UNCHANGED <<now, businesses, reviews, sentiment_analysis, review_tags, inv, started,
                   call, pg>>

BreakerNext == ClockTick \/ Execute

BreakerSpec == BreakerInit /\ [][BreakerNext]_vars

(* -------------------------------- retry ------------------------------- *)

\* maxRetries = 3 (the default), and the budgets a call is given.
maxRetries == 3
MaxBudget == 4
Budgets == (1 .. MaxBudget) \cup {maxRetries}

\* setTimeout(resolve, 100 * (i + 1))
BackoffMs == 100

\* What operation() resolves with or rejects with.
Resolutions == {"Success", "Recovered"}
Rejections == {"Transient error", "API Error"}
Settlements ==
    [ok : {TRUE}, value : Resolutions] \cup [ok : {FALSE}, value : Rejections]

\* catch (error): lastError = error, throw it on the last round, otherwise
\* wait before the next round.
catchError_no_retry(retry, error) ==
    [retry EXCEPT !.lastError = error, !.pc = "threw", !.thrown = error]

catchError(retry, error) ==
    IF retry.i = retry.maxRetries - 1
    THEN [retry EXCEPT !.lastError = error, !.pc = "threw", !.thrown = error]
    ELSE [retry EXCEPT !.lastError = error, !.pc = "waiting"]

\* mockRetryFunction(operation, maxRetries) at the head of its loop;
\* attempts holds how each invocation of operation settled.
RetryInit ==
    /\ PipelineInit
    /\ call = NoCall
    /\ pg = EmptyDatabase
    /\ unit \in {[kind |-> "retry", maxRetries |-> budget, i |-> 0, pc |-> "loop",
                  attempts |-> <<>>, lastError |-> NULL, returned |-> NULL,
                  thrown |-> NULL, waited |-> 0] : budget \in Budgets}

\* try { return await operation() } catch (error) { ... }
Attempt ==
    /\ unit.pc = "loop"
    /\ unit.i < unit.maxRetries
    /\ \E settled \in Settlements :
           LET invoked == [unit EXCEPT !.attempts = Append(@, settled)]
           IN  unit' = IF settled.ok
                       THEN [invoked EXCEPT !.pc = "returned", !.returned = settled.value]
                       ELSE catchError(invoked, settled.value)
    /\ UNCHANGED <<now, businesses, reviews, sentiment_analysis, review_tags, inv, started,
                   call, pg>>

\* await new Promise(resolve => setTimeout(resolve, 100 * (i + 1))); i++
Backoff ==
    /\ unit.pc = "waiting"
    /\ unit' = [unit EXCEPT !.waited = @ + BackoffMs * (unit.i + 1),
                            !.i = @ + 1,
                            !.pc = "loop"]
    /\ UNCHANGED <<now, businesses, reviews, sentiment_analysis, review_tags, inv, started,
                   call, pg>>

RetryNext == Attempt \/ Backoff

\* The operation's promise settles and the timer fires.
RetrySpec == RetryInit /\ [][RetryNext]_vars /\ WF_vars(RetryNext)

(* --------------------------- ProtectedRoute --------------------------- *)

\* UserRole, as AdminRoute, ManagerRoute and UserRoute list it.
RouteRoles == {"admin", "manager", "user"}

\* requiredRoles: the default [], the three convenience components, and a
\* list of the caller's own.
RequiredRoles ==
    {<<>>, <<"admin">>, <<"admin", "manager">>, <<"admin", "manager", "user">>, <<"user">>}

\* fallback: left out, null, or an element.
Fallbacks == {Undefined, [t |-> "null", v |-> <<>>], [t |-> "element", v |-> <<"fallback">>]}

\* redirectTo: the default '/auth' or the caller's own.
RedirectTargets == {"/auth", "/login"}

RouteProps == [requiredRoles : RequiredRoles, fallback : Fallbacks, redirectTo : RedirectTargets]

\* What useAuth() hands to the component.
AuthStates ==
    [user : {NULL} \cup AuthUsers,
     profile : {[role |-> NullText]} \cup [role : RouteRoles],
     loading : BOOLEAN]

\* profile is null
NoProfile(profile) == profile.role = NullText

\* window.location.href is left alone.
Stay == "(no navigation)"

\* requiredRoles.length > 0 && !requiredRoles.includes(profile.role)
RoleDenied_lenient(requiredRoles, profile) ==
    Len(requiredRoles) > 0 /\ NoProfile(profile)

RoleDenied(requiredRoles, profile) ==
    Len(requiredRoles) > 0 /\ ~(\E i \in DOMAIN requiredRoles : requiredRoles[i] = profile.role)

\* One render: the element returned and the assignment to
\* window.location.href, if any.
ProtectedRoute(props, auth, hasWindow) ==
    IF auth.loading
    THEN [element |-> "loading", href |-> Stay]
    ELSE IF auth.user = NULL \/ NoProfile(auth.profile)
    THEN IF ~Falsy(props.fallback)
         THEN [element |-> "fallback", href |-> Stay]
         ELSE [element |-> "null", href |-> IF hasWindow THEN props.redirectTo ELSE Stay]
    ELSE IF RoleDenied(props.requiredRoles, auth.profile)
    THEN IF ~Falsy(props.fallback)
         THEN [element |-> "fallback", href |-> Stay]
         ELSE [element |-> "access denied", href |-> Stay]
    ELSE [element |-> "children", href |-> Stay]

\* The route is mounted with its props, in the browser or in a server
\* render; nothing has been rendered yet.
RouteInit ==
    /\ PipelineInit
    /\ call = NoCall
    /\ pg = EmptyDatabase
    /\ unit \in {[kind |-> "route", props |-> props, hasWindow |-> hasWindow,
                  auth |-> [user |-> NULL, profile |-> [role |-> NullText], loading |-> TRUE],
                  element |-> "none", href |-> Stay] :
                    props \in RouteProps, hasWindow \in BOOLEAN}

\* useAuth() yields a value and the component renders with it, as long as
\* the page has not navigated away.
Render ==
    /\ unit.href = Stay
    /\ \E auth \in AuthStates :
           LET out == ProtectedRoute(unit.props, auth, unit.hasWindow)
           IN  unit' = [unit EXCEPT !.auth = auth, !.element = out.element, !.href = out.href]
    /\ UNCHANGED <<now, businesses, reviews, sentiment_analysis, review_tags, inv, started,
                   call, pg>>

RouteNext == Render

RouteSpec == RouteInit /\ [][RouteNext]_vars

(* ------------------------------- sign-up ------------------------------ *)

\* Rows inserted into auth.users in one behaviour.
MaxSignups == 3

\* raw_user_meta_data of a new auth.users row.
MetaData == [full_name : {NullText, "Ada Lovelace"}, name : {NullText, "ada"}]

\* The rows INSERT INTO auth.users may add: NEW of the trigger.
NewAuthUsers == [id : AuthUsers, raw_user_meta_data : MetaData]

\* COALESCE(NEW.raw_user_meta_data->>'full_name', NEW.raw_user_meta_data->>'name', 'Unknown')
Coalesce(values) ==
    LET given == SelectSeq(values, LAMBDA v : v # NullText)
    IN  IF given = <<>> THEN NullText ELSE given[1]

\* handle_new_user(): the two INSERTs; id and prefId are the defaults
\* uuid_generate_v4() gives the two rows. An INSERT that violates a
\* constraint raises, and the function's changes are undone.
handle_new_user(db, newUser, id, prefId) ==
    LET profile == [id |-> id, auth_user_id |-> newUser.id, role |-> "business_owner"]
        full_name == Coalesce(<<newUser.raw_user_meta_data.full_name,
                                newUser.raw_user_meta_data.name, "Unknown">>)
        withProfile == [db EXCEPT !.users = @ \cup {profile}, !.serial = id]
        preferences == [id |-> prefId, user_id |-> newUser.id]
        withPreferences ==
            [withProfile EXCEPT !.user_preferences = @ \cup {preferences}, !.serial = prefId]
    IN  IF ~Constraints("users", profile, db)
        THEN [db |-> db, full_name |-> full_name, error |-> "users: constraint violated"]
        ELSE IF ~Constraints("user_preferences", preferences, withProfile)
        THEN [db |-> db, full_name |-> full_name,
              error |-> "user_preferences: constraint violated"]
        ELSE [db |-> withPreferences, full_name |-> full_name, error |-> NullText]

\* No rows in auth.users or in the public tables; log holds, per INSERT
\* INTO auth.users, the new row and the error the statement ended with.
SignupInit ==
    /\ PipelineInit
    /\ call = NoCall
    /\ pg = EmptyDatabase
    /\ unit = [kind |-> "signup", auth_users |-> {}, log |-> <<>>]

\* INSERT INTO auth.users fires on_auth_user_created AFTER INSERT; an error
\* raised by the trigger aborts the statement, so the auth.users row is not
\* kept either.
SignUp ==
    /\ Len(unit.log) < MaxSignups
    /\ \E newUser \in NewAuthUsers :
           /\ newUser.id \notin unit.auth_users
           /\ LET done == handle_new_user(pg, newUser, pg.serial + 1, pg.serial + 2)
              IN  /\ pg' = done.db
                  /\ unit' = [unit EXCEPT
                                 !.auth_users = IF done.error = NullText
                                                THEN @ \cup {newUser.id} ELSE @,
                                 !.log = Append(@, [id |-> newUser.id,
                                                    full_name |-> done.full_name,
                                                    error |-> done.error])]
    /\ UNCHANGED <<now, businesses, reviews, sentiment_analysis, review_tags, inv, started,
                   call>>

SignupNext == SignUp

SignupSpec == SignupInit /\ [][SignupNext]_vars

(* ------------------------------ properties ---------------------------- *)

Range(seq) == {seq[i] : i \in DOMAIN seq}

StatusOf(rows, id) == rows[id].processing_status

\* An ingestion whose loop over the fetched reviews has ended.
Ingested(me) == me.fn = "fetch-reviews" /\ me.pc \in {"touch", "done"} /\ me.raw # <<>>

\* An analyze-sentiment invocation taking its last step, on a stored review.
AnalysisEnds(w) ==
    /\ inv[w].fn = "analyze-sentiment"
    /\ inv[w].pc \in {"setProcessing", "setFailed", "setCompleted"}
    /\ inv'[w].pc = "done"
    /\ ReviewExists(reviews, inv[w].review_id)

\* C1: dedup idempotence. However many ingestions of the same fetched list
\* have run, one after another or interleaved, every fetched review whose
\* insert did not fail in the store is stored in exactly one row of its
\* (business, platform, platform_review_id) key.
C1_DedupIdempotence ==
    \A w \in Workers :
        (Ingested(inv[w]) /\ "store" \notin Range(inv[w].insert_errors)) =>
            \A i \in DOMAIN inv[w].raw :
                Cardinality(ReviewsWithKey(reviews, inv[w].business_id, inv[w].platform,
                                           inv[w].raw[i])) = 1

\* A repeated ingestion: every fetched review was found stored, none added.
C1_Witness ==
    \E w \in Workers :
        /\ Ingested(inv[w])
        /\ inv[w].processedReviews = <<>> /\ inv[w].insert_errors = <<>>
        /\ \A i \in DOMAIN inv[w].raw :
               Cardinality(ReviewsWithKey(reviews, inv[w].business_id, inv[w].platform,
                                          inv[w].raw[i])) = 1

\* C2: interleaved ingestions never store two rows of one key, and an
\* invocation whose insert the unique constraint rejected still answers
\* 'Reviews fetched successfully' with status 200.
C2_ConcurrentDedup ==
    /\ \A i, j \in DOMAIN reviews :
           (/\ reviews[i].business_id = reviews[j].business_id
            /\ reviews[i].platform = reviews[j].platform
            /\ reviews[i].platform_review_id = reviews[j].platform_review_id) => i = j
    /\ \A w \in Workers :
           (/\ inv[w].fn = "fetch-reviews" /\ inv[w].pc = "done"
            /\ "duplicate" \in Range(inv[w].insert_errors)) =>
               /\ inv[w].resp.status = 200
               /\ inv[w].resp.message = "Reviews fetched successfully"

\* The second writer of a race: its lookup found nothing, its insert was
\* rejected as a duplicate, and it answered with the success response.
C2_Witness ==
    \E w \in Workers :
        /\ inv[w].fn = "fetch-reviews" /\ inv[w].pc = "done"
        /\ "duplicate" \in Range(inv[w].insert_errors)
        /\ inv[w].resp.status = 200

\* C3: of two concurrent analyze-sentiment invocations for the same stored
\* review at most one is past the claim, computing and storing a result.
C3_AtMostOneClassifier ==
    \A v, w \in Workers :
        (/\ v # w
         /\ inv[v].fn = "analyze-sentiment" /\ inv[w].fn = "analyze-sentiment"
         /\ inv[v].review_id = inv[w].review_id
         /\ ReviewExists(reviews, inv[v].review_id)) =>
            ~(/\ inv[v].pc \in {"insertSentiment", "insertTags", "setCompleted"}
              /\ inv[w].pc \in {"insertSentiment", "insertTags", "setCompleted"})

\* C4: every review has at most one sentiment_analysis row.
C4_OneResultPerReview ==
    \A id \in DOMAIN reviews : Cardinality(SentimentRowsOf(id)) <= 1

\* C5: an analyze-sentiment invocation's insert into sentiment_analysis
\* either adds the row or sets insertError; when it ends having stored the
\* result the review is completed, and when it ends after insertError the
\* review is failed and the invocation has written no completed status.
C5_StatusFollowsPersistence ==
    [][\A w \in Workers :
          /\ (inv[w].pc = "insertSentiment" /\ inv'[w] # inv[w]) =>
                 (inv'[w].insertError <=> sentiment_analysis' = sentiment_analysis)
          /\ AnalysisEnds(w) /\ inv[w].pc # "setProcessing" =>
                 IF inv[w].insertError
                 THEN /\ StatusOf(reviews', inv[w].review_id) = "failed"
                      /\ "completed" \notin Range(inv'[w].status_writes)
                 ELSE StatusOf(reviews', inv[w].review_id) = "completed"]_vars

\* Two invocations have ended, one having stored its result, one not.
C5_Witness ==
    \E v, w \in Workers :
        /\ inv[v].fn = "analyze-sentiment" /\ inv[v].pc = "done"
        /\ inv[v].resp.status = 200 /\ ~inv[v].insertError
        /\ inv[w].fn = "analyze-sentiment" /\ inv[w].pc = "done"
        /\ inv[w].insertError /\ ReviewExists(reviews, inv[w].review_id)

\* C6 as stated: when the insert of the sentiment result fails, the review
\* is rolled back to pending.
C6_RolledBackToPending ==
    [][\A w \in Workers :
          (AnalysisEnds(w) /\ inv[w].insertError) =>
              StatusOf(reviews', inv[w].review_id) = "pending"]_vars

\* C6 as amended: when the insert of the sentiment result fails, the review
\* is set to failed with is_processed false; a later analyze-sentiment
\* invocation for it claims it again whatever its status, and so re-attempts
\* the whole step.
C6_MarkedFailedAndRetryable ==
    [][\A w \in Workers :
          /\ (AnalysisEnds(w) /\ inv[w].insertError) =>
                 /\ StatusOf(reviews', inv[w].review_id) = "failed"
                 /\ ~reviews'[inv[w].review_id].is_processed
          /\ (/\ inv[w].fn = "analyze-sentiment" /\ inv[w].pc = "setProcessing"
              /\ inv'[w] # inv[w]
              /\ ReviewExists(reviews, inv[w].review_id)
              /\ StatusOf(reviews, inv[w].review_id) = "failed"
              /\ inv[w].review_text.t = "string") =>
                 /\ StatusOf(reviews', inv[w].review_id) = "processing"
                 /\ inv'[w].pc = "insertSentiment"]_vars

\* A retry has claimed a review that a failed insert had left failed.
C6_Witness ==
    \E w \in Workers :
        /\ inv[w].fn = "analyze-sentiment" /\ inv[w].pc = "insertSentiment"
        /\ ReviewExists(reviews, inv[w].review_id)
        /\ ~reviews[inv[w].review_id].is_processed
        /\ StatusOf(reviews, inv[w].review_id) = "processing"
        /\ \E v \in Workers :
               /\ v # w /\ inv[v].pc = "done" /\ inv[v].insertError
               /\ inv[v].review_id = inv[w].review_id

\* C7: an analyze-sentiment invocation that set a stored review to
\* processing and ends with an error leaves it pending or failed.
C7_NoClaimLeftBehind ==
    [][\A w \in Workers :
          (AnalysisEnds(w) /\ inv'[w].resp.status = 500) =>
              StatusOf(reviews', inv[w].review_id) \in {"pending", "failed"}]_vars

\* C8: last_review_fetch changes only in the last step of a fetch-reviews
\* invocation none of whose inserts failed in the store.
C8_TimestampOnlyAfterSuccess ==
    [][\A b \in DOMAIN businesses :
          businesses'[b].last_review_fetch # businesses[b].last_review_fetch =>
              \E w \in Workers :
                  /\ inv[w].fn = "fetch-reviews" /\ inv[w].pc = "touch"
                  /\ inv'[w].pc = "done" /\ inv[w].business_id = b
                  /\ inv[w].raw # <<>>
                  /\ "store" \notin Range(inv[w].insert_errors)]_vars

\* C9: a fetch-reviews invocation that found its business skips exactly
\* when force_refresh is false and last_review_fetch is set and less than
\* 24 hours before the time it read. A skipping invocation has fetched and
\* inserted nothing and answers with the skip message, which is not the
\* message of a performed fetch; any other invocation has fetched.
C9_FreshnessPolicy ==
    \A w \in Workers :
        LET me == inv[w]
            recent == /\ me.last_fetch # NULL
                      /\ (me.checked_at - me.last_fetch) * TickHours < 24
        IN  (me.fn = "fetch-reviews" /\ me.checked_at # NULL) =>
                IF ~me.force_refresh /\ recent
                THEN /\ me.pc = "done"
                     /\ me.resp.message = "Reviews recently fetched, skipping"
                     /\ me.resp.message # FetchedResponse(<<>>, me.platform, me.business_id).message
                     /\ me.raw = <<>>
                     /\ me.processedReviews = <<>> /\ me.insert_errors = <<>>
                ELSE /\ me.raw = MockReviews(me.platform, me.checked_at)
                     /\ me.resp.message # "Reviews recently fetched, skipping"

\* An invocation skipped because the business was fetched under a day ago.
C9_Witness ==
    \E w \in Workers :
        /\ inv[w].fn = "fetch-reviews" /\ inv[w].pc = "done"
        /\ inv[w].resp = SkippedResponse
        /\ ~inv[w].force_refresh /\ inv[w].last_fetch # NULL

\* C10: a step of a fetch-reviews invocation never moves a review to
\* completed, and the reviews it inserted are pending when it returns.
C10_IngestionLeavesPending ==
    [][\A w \in Workers :
          (inv[w].fn = "fetch-reviews" /\ inv[w].pc \notin {"idle", "done"}
           /\ inv'[w] # inv[w]) =>
              /\ \A id \in DOMAIN reviews :
                     StatusOf(reviews', id) = "completed" =>
                         StatusOf(reviews, id) = "completed"
              /\ inv'[w].pc = "done" =>
                     \A id \in Range(inv[w].processedReviews) :
                         StatusOf(reviews', id) = "pending"]_vars

\* a <= b for fractions with positive denominators.
FracLeq(a, b) == a[1] * b[2] <= b[1] * a[2]

FracEq(a, b) == a[1] * b[2] = b[1] * a[2]

\* CHECK (overall_sentiment IN (...)), CHECK (sentiment_score >= -1.0 AND
\* sentiment_score <= 1.0), CHECK (confidence_score >= 0.0 AND
\* confidence_score <= 1.0) of public.sentiment_analysis.
SentimentChecks(row) ==
    /\ row.overall_sentiment \in {"positive", "negative", "neutral"}
    /\ FracLeq(<<0 - 1, 1>>, row.sentiment_score) /\ FracLeq(row.sentiment_score, <<1, 1>>)
    /\ FracLeq(<<0, 1>>, row.confidence_score) /\ FracLeq(row.confidence_score, <<1, 1>>)

\* C11: score/label consistency. Every result of analyzeSentiment has the
\* label positive exactly when its score is above 0.2, negative exactly when
\* its score is below -0.2 and neutral otherwise, and with positiveHits +
\* negativeHits > 0 its score is (positiveHits - negativeHits) /
\* (positiveHits + negativeHits).
C11_ScoreLabelConsistency ==
    \A i \in DOMAIN call.results :
        LET r == call.results[i]
            positiveHits == r.analysis_metadata.positive_words_found
            negativeHits == r.analysis_metadata.negative_words_found
            score == r.sentiment_score
        IN  /\ score[2] > 0
            /\ positiveHits + negativeHits > 0 =>
                   FracEq(score, <<positiveHits - negativeHits, positiveHits + negativeHits>>)
            /\ r.overall_sentiment = "positive" <=> 5 * score[1] > score[2]
            /\ r.overall_sentiment = "negative" <=> 5 * score[1] < 0 - score[2]
            /\ r.overall_sentiment = "neutral" <=>
                   (5 * score[1] <= score[2] /\ 5 * score[1] >= 0 - score[2])

\* A text with three positive and two negative hits, score exactly 0.2, was
\* classified neutral.
C11_Witness ==
    /\ call.results # <<>>
    /\ call.results[1].overall_sentiment = "neutral"
    /\ call.results[1].analysis_metadata.positive_words_found = 3
    /\ call.results[1].analysis_metadata.negative_words_found = 2
    /\ FracEq(call.results[1].sentiment_score, <<2, 10>>)

\* C12: range invariants. Every result of analyzeSentiment has
\* -1 <= sentiment_score <= 1 and 0 <= confidence_score <= 0.95 with
\* confidence_score = min(0.95, 0.5 + 0.3 * |sentiment_score|), and the row
\* built from it satisfies the CHECK constraints of sentiment_analysis.
C12_RangeInvariants ==
    \A i \in DOMAIN call.results :
        LET r == call.results[i]
            score == r.sentiment_score
            linear == <<5 * score[2] + 3 * Abs(score[1]), 10 * score[2]>>
        IN  /\ score[2] > 0 /\ r.confidence_score[2] > 0
            /\ FracLeq(<<0 - 1, 1>>, score) /\ FracLeq(score, <<1, 1>>)
            /\ FracLeq(<<0, 1>>, r.confidence_score)
            /\ FracLeq(r.confidence_score, <<95, 100>>)
            /\ IF FracLeq(linear, <<95, 100>>)
               THEN FracEq(r.confidence_score, linear)
               ELSE FracEq(r.confidence_score, <<95, 100>>)
            /\ SentimentChecks(SentimentRow(1, r))

\* A result at the end of both ranges: score -1 and confidence 0.8, the
\* largest confidence there is.
C12_Witness ==
    \E i \in DOMAIN call.results :
        /\ FracEq(call.results[i].sentiment_score, <<0 - 1, 1>>)
        /\ FracEq(call.results[i].confidence_score, <<8, 10>>)
        /\ call.results[i].overall_sentiment = "negative"

\* C13: classification determinism. Two analyzeSentiment calls on the same
\* text return the same SentimentResult, analysis_metadata included.
C13_SameTextSameResult ==
    \A i, j \in DOMAIN call.results : call.results[i] = call.results[j]

\* C14: no-signal review. A text that includes no word of the positive
\* lexicon and no word of the negative lexicon is classified neutral with
\* score 0 and confidence 0.5.
C14_NoSignalNeutral ==
    \A i \in DOMAIN call.results :
        (/\ \A k \in DOMAIN positiveWords : ~Includes(call.text, positiveWords[k])
         /\ \A k \in DOMAIN negativeWords : ~Includes(call.text, negativeWords[k])) =>
            /\ call.results[i].overall_sentiment = "neutral"
            /\ call.results[i].sentiment_score[1] = 0
            /\ call.results[i].sentiment_score[2] > 0
            /\ FracEq(call.results[i].confidence_score, <<5, 10>>)

\* A text of plain words only, with key topics, was classified neutral.
C14_Witness ==
    /\ call.text = Take(plainWords, 2)
    /\ call.results # <<>>
    /\ call.results[1].overall_sentiment = "neutral"
    /\ call.results[1].key_topics # <<>>
    /\ call.results[1].analysis_metadata.positive_words_found = 0
    /\ call.results[1].analysis_metadata.negative_words_found = 0

\* C15: an analyze-sentiment request with an empty review_text for a stored
\* review adds no sentiment result and no tags, and leaves the review failed.
C15_EmptyTextMarkedFailed ==
    [][\A w \in Workers :
          (/\ inv'[w] # inv[w]
           /\ inv'[w].fn = "analyze-sentiment" /\ inv'[w].pc = "done"
           /\ inv'[w].review_text = Str(<<>>)
           /\ ReviewExists(reviews, inv'[w].review_id)) =>
              /\ sentiment_analysis' = sentiment_analysis
              /\ review_tags' = review_tags
              /\ StatusOf(reviews', inv'[w].review_id) = "failed"]_vars

\* A fetch-reviews invocation that has answered for a performed ingestion.
Performed(me) ==
    /\ me.fn = "fetch-reviews" /\ me.pc = "done"
    /\ me.resp.message = "Reviews fetched successfully"

\* C16: a fetch-reviews invocation one of whose inserts failed for a reason
\* other than a duplicate key does not answer 'Reviews fetched successfully'.
C16_StoreFailureReported ==
    \A w \in Workers :
        (/\ inv[w].fn = "fetch-reviews" /\ inv[w].pc = "done"
         /\ "store" \in Range(inv[w].insert_errors)) =>
            /\ inv[w].resp.status # 200
            /\ inv[w].resp.message # "Reviews fetched successfully"

\* C17: the response of a performed ingestion counts the rows the invocation
\* added and carries their identifiers: two responses that are equal are of
\* invocations that added the same rows.
C17_ResultCarriesNewRows ==
    \A v, w \in Workers :
        (Performed(inv[v]) /\ Performed(inv[w])) =>
            /\ inv[w].resp.reviews_processed = Len(inv[w].processedReviews)
            /\ inv[v].resp = inv[w].resp =>
                   inv[v].processedReviews = inv[w].processedReviews

\* C18: no two businesses share a google_place_id or a yelp_business_id.
C18_BusinessUniqueness ==
    \A b, c \in pg.businesses :
        b.id # c.id =>
            /\ b.google_place_id = NullText \/ b.google_place_id # c.google_place_id
            /\ b.yelp_business_id = NullText \/ b.yelp_business_id # c.yelp_business_id

\* C19: a stored review is never deleted, whatever the signed-in users and
\* the service role do.
C19_ReviewsAppendOnly ==
    [][\A r \in pg.reviews : r.id \in Ids(pg'.reviews)]_vars

\* The signed-in users a row belongs to, following its foreign keys up to
\* public.users.
UserOwners(db, user_id) == {u.auth_user_id : u \in {v \in db.users : v.id = user_id}}

BusinessOwners(db, business_id) ==
    UNION {UserOwners(db, b.user_id) : b \in {c \in db.businesses : c.id = business_id}}

ReviewOwners(db, review_id) ==
    UNION {BusinessOwners(db, r.business_id) : r \in {x \in db.reviews : x.id = review_id}}

Owners(db, table, row) ==
    CASE table = "reviews" -> BusinessOwners(db, row.business_id)
      [] table \in {"sentiment_analysis", "review_tags"} -> ReviewOwners(db, row.review_id)
      [] OTHER -> UserOwners(db, row.user_id)

\* C20: user data isolation. For two distinct signed-in users A and B,
\* neither an admin, after any inserts, updates and deletes: every row a
\* select by A returns from businesses, reviews, sentiment_analysis,
\* review_tags, email_notifications, user_preferences or api_keys belongs
\* to A, and A's select on businesses filtered by B's user id is empty.
C20_UserDataIsolation ==
    \A a, b \in AuthUsers :
        (a # b /\ ~IsAdmin(pg, a) /\ ~IsAdmin(pg, b)) =>
            /\ \A table \in Tables \ {"users"} :
                   \A row \in Select(pg, a, table) : Owners(pg, table, row) = {a}
            /\ {row \in Select(pg, a, "businesses") :
                    row.user_id \in OwnUserIds(pg, b) \cup {b}} = {}

\* User 11 selects a business of its own while user 12 has a business with
\* a review, none of which user 11 sees.
C20_Witness ==
    /\ ~IsAdmin(pg, 11) /\ ~IsAdmin(pg, 12)
    /\ Select(pg, 11, "businesses") # {}
    /\ \E r \in pg.reviews : ReviewOwners(pg, r.id) = {12}
    /\ Select(pg, 11, "reviews") = {}
    /\ Select(pg, 12, "reviews") = pg.reviews

\* C29: a review's is_processed flag is true exactly when its
\* processing_status is completed.
C29_FlagIffCompleted ==
    \A id \in DOMAIN reviews :
        reviews[id].is_processed <=> StatusOf(reviews, id) = "completed"

\* C30: every review whose processing_status is completed has a stored
\* sentiment_analysis row.
C30_CompletedHasResult ==
    \A id \in DOMAIN reviews :
        StatusOf(reviews, id) = "completed" => SentimentRowsOf(id) # {}

\* CHECK (tag_category IN ('service', 'product', 'ambiance', 'staff', 'value', 'other'))
TagCategories == {"service", "product", "ambiance", "staff", "value", "other"}

\* The topics one of whose keywords the text includes.
DetectedTopics(tokens) ==
    {topic \in DOMAIN topicKeywords : \E k \in topicKeywords[topic] : Includes(tokens, k)}

\* C23: tag derivation. The rows generateReviewTags inserts for a result are
\* one per detected topic, each with a category of the review_tags CHECK
\* list and with the result's confidence_score; with no detected topic no
\* row is inserted.
C23_TagDerivation ==
    call.tags # <<>> =>
        LET detected == DetectedTopics(call.text)
        IN  \A i \in DOMAIN call.tags :
                LET r == call.results[i]
                    rows == call.tags[i]
                IN  /\ Range(r.key_topics) = detected
                    /\ Len(r.key_topics) = Cardinality(detected)
                    /\ Len(rows) = Cardinality(detected)
                    /\ \A k \in DOMAIN rows :
                           /\ rows[k].tag.tag_category \in TagCategories
                           /\ rows[k].tag.confidence_score = r.confidence_score
                    /\ detected = {} => rows = <<>>

\* A text with five topics got five tags, of four categories.
C23_Witness ==
    /\ call.tags # <<>>
    /\ Len(call.tags[1]) = 5
    /\ Cardinality({call.tags[1][k].tag.tag_category : k \in DOMAIN call.tags[1]}) = 4
    /\ call.tags[1][1].tag.confidence_score = call.results[1].confidence_score

\* C24: staff tag naming. When the text includes a keyword of the topic
\* service, the tag derived from that topic has category staff, and its
\* name is 'friendly staff' when the label is positive and 'poor service'
\* when the label is negative.
C24_StaffTagNaming ==
    \A i \in DOMAIN call.tags :
        (\E k \in topicKeywords["service"] : Includes(call.text, k)) =>
            \E j \in DOMAIN call.tags[i] :
                /\ call.results[i].key_topics[j] = "service"
                /\ call.tags[i][j].tag.tag_category = "staff"
                /\ call.results[i].overall_sentiment = "positive" =>
                       call.tags[i][j].tag.tag_name = "friendly staff"
                /\ call.results[i].overall_sentiment = "negative" =>
                       call.tags[i][j].tag.tag_name = "poor service"

\* A negative review naming the staff was tagged 'poor service' in
\* category staff.
C24_Witness ==
    /\ call.tags # <<>>
    /\ call.results[1].overall_sentiment = "negative"
    /\ \E j \in DOMAIN call.tags[1] :
           /\ call.results[1].key_topics[j] = "service"
           /\ call.tags[1][j].tag = [tag_name |-> "poor service", tag_category |-> "staff",
                                      confidence_score |-> call.results[1].confidence_score]

\* The words of a phrase: its maximal runs of characters other than spaces.
WordCount(chars) ==
    Cardinality({i \in DOMAIN chars :
                    chars[i] # " " /\ (i = 1 \/ chars[i - 1] = " ")})

\* C25: key-phrase extraction. extractKeyPhrases returns at most 5 phrases,
\* each a trimmed sentence of the text with 3 to 8 words, in their order of
\* appearance.
C25_KeyPhrases ==
    \A i \in DOMAIN call.results :
        LET phrases == call.results[i]
            trimmed == [k \in DOMAIN Sentences(call.text) |-> Trim(Sentences(call.text)[k])]
        IN  /\ Len(phrases) <= 5
            /\ phrases = SelectSeq(trimmed, LAMBDA x : x \in Range(phrases))
            /\ \A k \in DOMAIN phrases :
                   WordCount(phrases[k]) >= 3 /\ WordCount(phrases[k]) <= 8

\* The operations invoked through the breaker, in order: the log without
\* the rejected calls.
Operations(log) == SelectSeq(log, LAMBDA entry : entry # "open")

\* The number of failed operations since the last successful one.
RECURSIVE FailedStreak(_)
FailedStreak(operations) ==
    IF operations = <<>> \/ operations[Len(operations)] = "success"
    THEN 0
    ELSE 1 + FailedStreak(SubSeq(operations, 1, Len(operations) - 1))

(* C26: a breaker starts CLOSED; after threshold (5) consecutive failed    *)
(* operations it is OPEN; a call of execute on an OPEN breaker whose       *)
(* timeout has not elapsed is rejected without invoking the operation and  *)
(* leaves the breaker as it is, so that calls on an always-failing         *)
(* operation within the timeout invoke it at most 5 times (6 calls: 5      *)
(* invocations); a successful operation sets failures to 0 and the state   *)
(* to CLOSED.                                                              *)
C26_CircuitBreaker ==
    [][unit.kind = "breaker" /\ unit' # unit =>
          LET breaker == unit.breaker
              after == unit'.breaker
              log == unit'.log
              operations == Operations(log)
          IN  /\ unit.log = <<>> => breaker.state = "CLOSED"
              /\ FailedStreak(operations) >= threshold => after.state = "OPEN"
              /\ ( /\ Len(log) > Len(unit.log)
                   /\ breaker.state = "OPEN"
                   /\ unit.clock - breaker.lastFailureTime <= timeout )
                 => log = Append(unit.log, "open") /\ after = breaker
              /\ ( /\ \A i \in DOMAIN log : log[i] # "success"
                   /\ unit'.clock <= timeout )
                 => /\ Len(operations) = IF Len(log) < threshold THEN Len(log) ELSE threshold
                    /\ Len(log) = 6 => Len(operations) = 5
              /\ ( Len(log) > Len(unit.log) /\ log[Len(log)] = "success" )
                 => after.failures = 0 /\ after.state = "CLOSED"
      ]_vars

\* Six calls on an always-failing operation: five invocations, then the
\* OPEN breaker rejects the sixth.
C26_Witness ==
    /\ unit.kind = "breaker"
    /\ unit.log = <<"failure", "failure", "failure", "failure", "failure", "open">>
    /\ unit.breaker.state = "OPEN"
    /\ unit.breaker.failures = 5

(* C27: the retry helper invokes the operation at most maxRetries times;   *)
(* only the last invocation can have succeeded (none follows a success);   *)
(* it returns exactly when an invocation succeeded, with that result; it   *)
(* throws exactly when maxRetries invocations all failed, with the error   *)
(* of the last one; otherwise it goes on, and it ends in one of the two.   *)
C27_Retry ==
    /\ [][unit.kind = "retry" /\ unit' # unit =>
            LET attempts == unit'.attempts
                n == Len(attempts)
                succeeded == n > 0 /\ attempts[n].ok
            IN  /\ n <= unit'.maxRetries
                /\ \A j \in 1 .. n - 1 : ~attempts[j].ok
                /\ unit'.pc = "returned" <=> succeeded
                /\ succeeded => unit'.returned = attempts[n].value
                /\ unit'.pc = "threw" <=> (~succeeded /\ n = unit'.maxRetries)
                /\ unit'.pc = "threw" => unit'.thrown = attempts[n].value
                /\ n >= Len(unit.attempts)
                /\ unit.pc \in {"returned", "threw"} => n = Len(unit.attempts)
       ]_vars
    /\ <>(unit.kind = "retry" /\ unit.pc \in {"returned", "threw"})

\* Two transient failures, then the third and last allowed attempt succeeds.
C27_Witness ==
    /\ unit.kind = "retry"
    /\ unit.maxRetries = maxRetries
    /\ unit.attempts = << [ok |-> FALSE, value |-> "Transient error"],
                          [ok |-> FALSE, value |-> "Transient error"],
                          [ok |-> TRUE, value |-> "Success"] >>
    /\ unit.pc = "returned"
    /\ unit.returned = "Success"

(* C28: a render of ProtectedRoute returns the children only when loading  *)
(* is over, user and profile are both present and requiredRoles is empty   *)
(* or contains profile.role (and then it does return them); while loading  *)
(* it returns neither the children nor a redirect; when loading is over    *)
(* and the user or the profile is missing it returns the fallback if one   *)
(* is given and otherwise, in a browser, sets the location to redirectTo.  *)
C28_ProtectedRoute ==
    [][unit.kind = "route" /\ unit' # unit =>
          LET auth == unit'.auth
              props == unit'.props
              authenticated == auth.user # NULL /\ ~NoProfile(auth.profile)
              allowed == \/ props.requiredRoles = <<>>
                         \/ auth.profile.role \in Range(props.requiredRoles)
              given == props.fallback.t = "element"
          IN  /\ unit'.element = "children" <=> (~auth.loading /\ authenticated /\ allowed)
              /\ auth.loading => unit'.element = "loading" /\ unit'.href = Stay
              /\ (~auth.loading /\ ~authenticated /\ given)
                 => unit'.element = "fallback" /\ unit'.href = Stay
              /\ (~auth.loading /\ ~authenticated /\ ~given)
                 => /\ unit'.element = "null"
                    /\ unit'.hasWindow => unit'.href = props.redirectTo
      ]_vars

\* A visitor without a session, on a route without a fallback, is sent to
\* the route's own redirect target.
C28_Witness ==
    /\ unit.kind = "route"
    /\ ~unit.auth.loading
    /\ unit.auth.user = NULL
    /\ unit.props.fallback = Undefined
    /\ unit.props.redirectTo = "/login"
    /\ unit.element = "null"
    /\ unit.href = "/login"

(* C21: whenever a new auth user is created, handle_new_user succeeds and  *)
(* leaves exactly one public.users row for that auth user and exactly one  *)
(* user_preferences row whose user_id is the id of that profile row.       *)
C21_SignupCreatesDefaults ==
    unit.kind = "signup" =>
        \A i \in DOMAIN unit.log :
            LET profiles == {u \in pg.users : u.auth_user_id = unit.log[i].id}
            IN  /\ unit.log[i].error = NullText
                /\ Cardinality(profiles) = 1
                /\ \A profile \in profiles :
                       Cardinality({p \in pg.user_preferences : p.user_id = profile.id}) = 1

====
